---------------------------- MODULE Spec2Model ----------------------------
(***************************************************************************)
(* Model of the dense Matrix type of ralgeb (src/src/matrix.rs), under    *)
(* Spec, and of its combinatorics (src/src/combinatorics.rs), under        *)
(* SpecComb.                                                               *)
(*                                                                         *)
(* A Matrix is the record [rows, cols, mat]; mat is a sequence of rows,    *)
(* each a sequence of entries.  Entries are f64 in the source: a finite    *)
(* entry is modelled by an integer, and the non-finite values of f64 by    *)
(* PosInf, NegInf and NaN, with the arithmetic of f64 on them (f64_add,     *)
(* f64_sub, f64_mul).  Under Spec the caller writes finite entries only;   *)
(* under SpecFloat the caller's matrix holds non-finite entries as well.   *)
(* The source indexes from 0, TLA+ sequences from 1: an index i of the     *)
(* source is position i + 1 of the sequence.                               *)
(*                                                                         *)
(* A call returns a tagged record:                                         *)
(*   Ok(v) / Err(cause)   a Result<_, MatrixError>                         *)
(*   Some(v) / None       an Option<Matrix>                                *)
(*   Panic                the call faulted on an out-of-range index or on  *)
(*                        unwrap() of an Err, and returned nothing         *)
(***************************************************************************)
EXTENDS Integers, Sequences, FiniteSets

\* ------------------------------------------------------------------ bounds

\* Largest number of cells (rows * cols) of a matrix the caller builds, and
\* the largest length of a grid with no cells (rows x 0, 0 x cols).
MaxCells == 4

\* Entries the caller writes into a matrix.
Vals == {0, 1}

\* Scalars the caller passes to scalar_row_mul and scalar_mat_mul.
Scalars == {-1, 0, 1, 2}

Dims == 0..MaxCells

Shapes == {s \in Dims \X Dims : s[1] * s[2] <= MaxCells}

\* Row vectors the caller passes to replace_row: every length, fitting or not.
RowVecs == UNION {[1..n -> Vals] : n \in Dims}

\* Row and column indices the caller passes, one past the largest extent included.
Indices == 0..(MaxCells + 1)

\* --------------------------------------------------------------- f64 entries

\* The non-finite values of f64.  Each is a number no finite entry within the
\* bounds reaches, so that an entry is non-finite exactly when it is one of
\* the three.
PosInf == 2^20

NegInf == -(2^20)

NaN == 2^21

NonFinite == {PosInf, NegInf, NaN}

is_finite(x) == x \notin NonFinite

\* -x on f64
f64_neg(x) ==
    IF x = NaN
    THEN NaN
    ELSE IF x = PosInf
         THEN NegInf
         ELSE IF x = NegInf THEN PosInf ELSE -x

\* x + y on f64: NaN is absorbing, inf + (-inf) is NaN, an infinity absorbs
\* every finite value.
f64_add(x, y) ==
    IF x = NaN \/ y = NaN
    THEN NaN
    ELSE IF x \in {PosInf, NegInf}
         THEN IF y = f64_neg(x) THEN NaN ELSE x
         ELSE IF y \in {PosInf, NegInf} THEN y ELSE x + y

\* x - y on f64
f64_sub(x, y) == f64_add(x, f64_neg(y))

\* x * y on f64: NaN is absorbing, 0 * inf is NaN, and an infinity times a
\* value other than 0 is the infinity of the product's sign.
f64_mul(x, y) ==
    IF x = NaN \/ y = NaN
    THEN NaN
    ELSE IF x \in {PosInf, NegInf} \/ y \in {PosInf, NegInf}
         THEN IF x = 0 \/ y = 0
              THEN NaN
              ELSE IF (x > 0) = (y > 0) THEN PosInf ELSE NegInf
         ELSE x * y

\* ------------------------------------------------------------ result values

Ok(v) == [tag |-> "Ok", val |-> v]

Err(c) == [tag |-> "Err", cause |-> c]

Some(v) == [tag |-> "Some", val |-> v]

None == [tag |-> "None"]

Panic == [tag |-> "Panic"]

Matrix(r, c, grid) == [rows |-> r, cols |-> c, mat |-> grid]

\* mat[i] names an element: i < mat.len()
HasRow(self, i) == i >= 0 /\ i < Len(self.mat)

\* mat[i][j] names an element
HasCell(self, i, j) == HasRow(self, i) /\ j >= 0 /\ j < Len(self.mat[i + 1])

\* ------------------------------------------------------------- Matrix::new

RECURSIVE new_loop(_, _, _, _)
new_loop(rows, cols, r, outer_vec) ==
    LET inner_vec == [k \in 1..cols |-> 0]
    IN  IF r >= rows
        THEN Matrix(Len(outer_vec), Len(inner_vec), outer_vec)
        ELSE new_loop(rows, cols, r + 1, Append(outer_vec, inner_vec))

\* new whose loop counts the rows from 1.
new_from_row_1(rows, cols) == new_loop(rows, cols, 1, <<>>)

new(rows, cols) == new_loop(rows, cols, 0, <<>>)

\* -------------------------------------------------------- Matrix::identity

RECURSIVE identity_loop(_, _, _)
identity_loop(mm, rows, r) ==
    IF r >= rows
    THEN Some(mm)
    ELSE IF ~HasCell(mm, r, r)
         THEN Panic
         ELSE identity_loop([mm EXCEPT !.mat[r + 1][r + 1] = 1], rows, r + 1)

\* identity whose loop starts at row 1.
identity_from_row_1(rows, cols) ==
    IF rows = cols
    THEN identity_loop(new(rows, cols), rows, 1)
    ELSE None

\* identity that refuses a shape only when it has more rows than columns.
identity_rows_le_cols(rows, cols) ==
    IF rows <= cols
    THEN identity_loop(new(rows, cols), rows, 0)
    ELSE None

identity(rows, cols) ==
    IF rows = cols
    THEN identity_loop(new(rows, cols), rows, 0)
    ELSE None

\* ----------------------------------------------------- Matrix::replace_row

\* replace_row without the comparison of the row's length with cols.
replace_row_unchecked(self, row_num, row) ==
    IF ~HasRow(self, row_num)
    THEN Panic
    ELSE Ok(Matrix(self.rows, self.cols,
                   [self.mat EXCEPT ![row_num + 1] = row]))

\* replace_row that counts rows from 1.
replace_row_one_based(self, row_num, row) ==
    IF self.cols # Len(row)
    THEN Err("ColumnsDiffer")
    ELSE IF ~HasRow(self, row_num - 1)
         THEN Panic
         ELSE Ok(Matrix(self.rows, self.cols,
                        [self.mat EXCEPT ![row_num] = row]))

replace_row(self, row_num, row) ==
    IF self.cols # Len(row)
    THEN Err("ColumnsDiffer")
    ELSE IF ~HasRow(self, row_num)
         THEN Panic
         ELSE Ok(Matrix(self.rows, self.cols,
                        [self.mat EXCEPT ![row_num + 1] = row]))

\* -------------------------------------------------- Matrix::scalar_row_mul

scalar_row_mul(self, row_num, scalar) ==
    IF scalar = 0
    THEN Err("ScalarZero")
    ELSE IF row_num <= self.rows
         THEN IF ~HasRow(self, row_num)
              THEN Panic
              ELSE Ok(Matrix(self.rows, self.cols,
                             [self.mat EXCEPT ![row_num + 1] =
                                 [k \in 1..Len(self.mat[row_num + 1]) |->
                                     f64_mul(self.mat[row_num + 1][k], scalar)]]))
         ELSE Err("NoSuchRow")

\* ------------------------------------------------------------- Matrix::add

RECURSIVE add_loop(_, _, _, _, _)
add_loop(m1, m2, res, i, j) ==
    IF ~(i < m2.rows)
    THEN Ok(res)
    ELSE IF ~(j < m2.cols)
         THEN add_loop(m1, m2, res, i + 1, 0)
         ELSE IF ~(HasCell(res, i, j) /\ HasCell(m1, i, j) /\ HasCell(m2, i, j))
              THEN Panic
              ELSE add_loop(m1, m2,
                            [res EXCEPT !.mat[i + 1][j + 1] =
                                f64_add(m1.mat[i + 1][j + 1], m2.mat[i + 1][j + 1])],
                            i, j + 1)

\* add that compares the rows of its operands only.
add_rows_only(m1, m2) ==
    IF m1.rows = m2.rows
    THEN add_loop(m1, m2, new(m1.rows, m1.cols), 0, 0)
    ELSE Err("DimensionsDiffer")

add(m1, m2) ==
    IF m1.rows = m2.rows /\ m1.cols = m2.cols
    THEN add_loop(m1, m2, new(m1.rows, m1.cols), 0, 0)
    ELSE Err("DimensionsDiffer")

\* -------------------------------------------------------- Matrix::subtract

RECURSIVE subtract_loop(_, _, _, _, _)
subtract_loop(m1, m2, res, i, j) ==
    IF ~(i < m2.rows)
    THEN Ok(res)
    ELSE IF ~(j < m2.cols)
         THEN subtract_loop(m1, m2, res, i + 1, 0)
         ELSE IF ~(HasCell(res, i, j) /\ HasCell(m1, i, j) /\ HasCell(m2, i, j))
              THEN Panic
              ELSE subtract_loop(m1, m2,
                                 [res EXCEPT !.mat[i + 1][j + 1] =
                                     f64_sub(m1.mat[i + 1][j + 1],
                                             m2.mat[i + 1][j + 1])],
                                 i, j + 1)

\* subtract with its operands exchanged.
subtract_swapped(m1, m2) ==
    IF m1.rows = m2.rows /\ m1.cols = m2.cols
    THEN subtract_loop(m2, m1, new(m1.rows, m1.cols), 0, 0)
    ELSE Err("DimensionsDiffer")

subtract(m1, m2) ==
    IF m1.rows = m2.rows /\ m1.cols = m2.cols
    THEN subtract_loop(m1, m2, new(m1.rows, m1.cols), 0, 0)
    ELSE Err("DimensionsDiffer")

\* ------------------------------------------------------- Matrix::transpose

\* transpose_col that reads entry [c][r] where the source reads [r][c].
RECURSIVE transpose_col_swapped(_, _, _, _)
transpose_col_swapped(mm, c, r, v) ==
    IF mm.rows > r
    THEN IF ~HasCell(mm, c, r)
         THEN Panic
         ELSE transpose_col_swapped(mm, c, r + 1, Append(v, mm.mat[c + 1][r + 1]))
    ELSE Ok(v)

\* The inner while loop: v gathers column c of m, row 0 first.
RECURSIVE transpose_col(_, _, _, _)
transpose_col(mm, c, r, v) ==
    IF mm.rows > r
    THEN IF ~HasCell(mm, r, c)
         THEN Panic
         ELSE transpose_col(mm, c, r + 1, Append(v, mm.mat[r + 1][c + 1]))
    ELSE Ok(v)

\* The outer while loop: row c of mat is replaced by column c of m; unwrap()
\* faults when replace_row returns an Err.
RECURSIVE transpose_loop(_, _, _)
transpose_loop(mm, mat, c) ==
    IF mm.cols > c
    THEN LET v == transpose_col(mm, c, 0, <<>>)
         IN  IF v.tag # "Ok"
             THEN Panic
             ELSE LET t == replace_row(mat, c, v.val)
                  IN  IF t.tag # "Ok"
                      THEN Panic
                      ELSE transpose_loop(mm, t.val, c + 1)
    ELSE Ok(mat)

\* transpose that allocates its result with the shape of its argument.
transpose_same_shape(mm) == transpose_loop(mm, new(mm.rows, mm.cols), 0)

transpose(mm) == transpose_loop(mm, new(mm.cols, mm.rows), 0)

\* -------------------------------------------------- Matrix::scalar_mat_mul

\* The while loop: the ? operator returns the first failure of a row step.
RECURSIVE scalar_mat_mul_loop(_, _, _)
scalar_mat_mul_loop(self, scalar, r) ==
    IF r < self.rows
    THEN LET t == scalar_row_mul(self, r, scalar)
         IN  IF t.tag # "Ok"
             THEN t
             ELSE scalar_mat_mul_loop(t.val, scalar, r + 1)
    ELSE Ok(Matrix(self.rows, self.cols, self.mat))

\* scalar_mat_mul whose loop starts at row 1.
scalar_mat_mul_from_row_1(self, scalar) ==
    IF scalar = 0
    THEN Err("ScalarZero")
    ELSE scalar_mat_mul_loop(self, scalar, 1)

scalar_mat_mul(self, scalar) ==
    IF scalar = 0
    THEN Err("ScalarZero")
    ELSE scalar_mat_mul_loop(self, scalar, 0)

\* --------------------------------------------------------- Matrix::get_row

\* get_row with the guard of scalar_row_mul: row_num = rows passes it.
get_row_guard_gt(self, row_num) ==
    IF row_num > self.rows
    THEN Err("NoSuchRow")
    ELSE IF ~HasRow(self, row_num)
         THEN Panic
         ELSE Ok(self.mat[row_num + 1])

get_row(self, row_num) ==
    IF row_num >= self.rows
    THEN Err("NoSuchRow")
    ELSE IF ~HasRow(self, row_num)
         THEN Panic
         ELSE Ok(self.mat[row_num + 1])

\* --------------------------------------------------------- Matrix::get_col

RECURSIVE get_col_loop(_, _, _, _)
get_col_loop(self, col_num, k, c) ==
    IF k > Len(self.mat)
    THEN Ok(c)
    ELSE IF ~(col_num < Len(self.mat[k]))
         THEN Panic
         ELSE get_col_loop(self, col_num, k + 1, Append(c, self.mat[k][col_num + 1]))

\* get_col that answers a column out of range with rows zeros.
get_col_rows_zeros(self, col_num) ==
    IF col_num >= self.cols
    THEN Ok([k \in 1..self.rows |-> 0])
    ELSE get_col_loop(self, col_num, 1, <<>>)

get_col(self, col_num) ==
    IF col_num >= self.cols
    THEN Ok([k \in 1..self.cols |-> 0])
    ELSE get_col_loop(self, col_num, 1, <<>>)

\* ----------------------------------------------------- Matrix::dot_product

RECURSIVE dot_product_loop(_, _, _, _)
dot_product_loop(v1, v2, i, result) ==
    IF i < Len(v1)
    THEN dot_product_loop(v1, v2, i + 1,
                          f64_add(result, f64_mul(v1[i + 1], v2[i + 1])))
    ELSE result

\* dot_product whose loop starts at index 1.
dot_product_from_1(v1, v2) ==
    IF Len(v1) # Len(v2)
    THEN 0
    ELSE dot_product_loop(v1, v2, 1, 0)

dot_product(v1, v2) ==
    IF Len(v1) # Len(v2)
    THEN 0
    ELSE dot_product_loop(v1, v2, 0, 0)

\* -------------------------------------------------------- Matrix::multiply

RECURSIVE multiply_loop(_, _, _, _, _)
multiply_loop(m1, m2, result, i, j) ==
    IF ~(i < m1.rows)
    THEN Ok(result)
    ELSE IF ~(j < m2.cols)
         THEN multiply_loop(m1, m2, result, i + 1, 0)
         ELSE LET col == get_col(m2, j)
              IN  IF ~HasRow(m1, i) \/ col.tag # "Ok" \/ ~HasCell(result, i, j)
                  THEN Panic
                  ELSE multiply_loop(m1, m2,
                                     [result EXCEPT !.mat[i + 1][j + 1] =
                                         dot_product(m1.mat[i + 1], col.val)],
                                     i, j + 1)

multiply(m1, m2) ==
    IF m1.cols # m2.rows
    THEN Err("CannotMultiply")
    ELSE multiply_loop(m1, m2, new(m1.rows, m2.cols), 0, 0)

\* The pairs of vectors multiply hands to dot_product, in the order of its
\* loops and up to the point where it returns or faults.  At entry (i, j)
\* the arguments are evaluated first, row i of m1 and then get_col(j) of m2:
\* a fault in either ends the call before dot_product is called.  The entry
\* [i][j] of result is indexed after dot_product has returned: a fault there
\* ends the call with that pair handed over.  Only the shape of result
\* matters here, so its entries are left as new made them.
RECURSIVE multiply_dot_loop(_, _, _, _, _, _)
multiply_dot_loop(m1, m2, result, i, j, pairs) ==
    IF ~(i < m1.rows)
    THEN pairs
    ELSE IF ~(j < m2.cols)
         THEN multiply_dot_loop(m1, m2, result, i + 1, 0, pairs)
         ELSE IF ~HasRow(m1, i)
              THEN pairs
              ELSE LET col == get_col(m2, j)
                   IN  IF col.tag # "Ok"
                       THEN pairs
                       ELSE LET handed == pairs \cup {<<m1.mat[i + 1], col.val>>}
                            IN  IF ~HasCell(result, i, j)
                                THEN handed
                                ELSE multiply_dot_loop(m1, m2, result, i, j + 1,
                                                       handed)

multiply_dot_args(m1, m2) ==
    IF m1.cols # m2.rows
    THEN {}
    ELSE multiply_dot_loop(m1, m2, new(m1.rows, m2.cols), 0, 0, {})

\* ------------------------------------------------------------ the caller

\* Matrices a caller can build with new and replace_row within the bounds.
Matrices ==
    UNION {{Matrix(s[1], s[2], g) : g \in [1..s[1] -> [1..s[2] -> Vals]]} :
              s \in Shapes}

\* The second operand the caller passes to add, subtract and multiply: a
\* matrix built within the bounds, or an identity of a dimension within them.
Operands == Matrices \cup {identity(n, n).val : n \in Dims}

\* A matrix the caller goes on with: its shape and entries are within the bounds.
InBounds(x) ==
    /\ <<x.rows, x.cols>> \in Shapes
    /\ \A k \in 1..Len(x.mat) : \A l \in 1..Len(x.mat[k]) : x.mat[k][l] \in Vals

\* A call returned a matrix and the caller goes on with it.
Keeps(out) == out.tag \in {"Ok", "Some"} /\ InBounds(out.val)

\* What m holds when the caller has no matrix (held = FALSE).
NoMatrix == Matrix(0, 0, <<>>)

\* m:    the matrix the caller owns
\* held: whether the caller owns one: a call that takes self by value moves
\*       it, and the caller owns a matrix again only if the call returned one
\* last: the last call, its arguments and what it returned
VARIABLES m, held, last

vars == <<m, held, last>>

Call(op, self, other, i, j, row, scalar, out) ==
    [op |-> op, self |-> self, other |-> other, i |-> i, j |-> j,
     row |-> row, scalar |-> scalar, out |-> out]

\* No call is in progress: the caller has taken the last result.
NoCall == Call("none", NoMatrix, NoMatrix, 0, 0, <<>>, 0, None)

Idle == last.op = "none"

\* A call that takes self by value (mut self, or m: Matrix).
Moved(out) ==
    /\ Idle
    /\ m' = IF Keeps(out) THEN out.val ELSE NoMatrix
    /\ held' = Keeps(out)

\* A call that borrows its operands (&self, &Matrix) or takes none.
Borrowed(out) ==
    /\ Idle
    /\ m' = IF Keeps(out) THEN out.val ELSE m
    /\ held' = (held \/ Keeps(out))

Init ==
    \E s \in Shapes :
        /\ m = new(s[1], s[2])
        /\ held = TRUE
        /\ last = NoCall

CallNew(rows, cols) ==
    LET out == Ok(new(rows, cols))
    IN  /\ Borrowed(out)
        /\ last' = Call("new", NoMatrix, NoMatrix, rows, cols, <<>>, 0, out)

CallIdentity(rows, cols) ==
    LET out == identity(rows, cols)
    IN  /\ Borrowed(out)
        /\ last' = Call("identity", NoMatrix, NoMatrix, rows, cols, <<>>, 0, out)

CallReplaceRow(row_num, row) ==
    LET out == replace_row(m, row_num, row)
    IN  /\ held
        /\ Moved(out)
        /\ last' = Call("replace_row", m, NoMatrix, row_num, 0, row, 0, out)

CallScalarRowMul(row_num, scalar) ==
    LET out == scalar_row_mul(m, row_num, scalar)
    IN  /\ held
        /\ Moved(out)
        /\ last' = Call("scalar_row_mul", m, NoMatrix, row_num, 0, <<>>, scalar, out)

CallScalarMatMul(scalar) ==
    LET out == scalar_mat_mul(m, scalar)
    IN  /\ held
        /\ Moved(out)
        /\ last' = Call("scalar_mat_mul", m, NoMatrix, 0, 0, <<>>, scalar, out)

CallTranspose ==
    LET out == transpose(m)
    IN  /\ held
        /\ Moved(out)
        /\ last' = Call("transpose", m, NoMatrix, 0, 0, <<>>, 0, out)

CallAdd(m2) ==
    LET out == add(m, m2)
    IN  /\ held
        /\ Borrowed(out)
        /\ last' = Call("add", m, m2, 0, 0, <<>>, 0, out)

CallSubtract(m2) ==
    LET out == subtract(m, m2)
    IN  /\ held
        /\ Borrowed(out)
        /\ last' = Call("subtract", m, m2, 0, 0, <<>>, 0, out)

CallMultiply(m2) ==
    LET out == multiply(m, m2)
    IN  /\ held
        /\ Borrowed(out)
        /\ last' = Call("multiply", m, m2, 0, 0, <<>>, 0, out)

\* multiply with the caller's matrix as the right operand.
CallMultiplyBy(m1) ==
    LET out == multiply(m1, m)
    IN  /\ held
        /\ Borrowed(out)
        /\ last' = Call("multiply", m1, m, 0, 0, <<>>, 0, out)

CallGetRow(row_num) ==
    /\ Idle
    /\ held
    /\ UNCHANGED <<m, held>>
    /\ last' = Call("get_row", m, NoMatrix, row_num, 0, <<>>, 0, get_row(m, row_num))

CallGetCol(col_num) ==
    /\ Idle
    /\ held
    /\ UNCHANGED <<m, held>>
    /\ last' = Call("get_col", m, NoMatrix, 0, col_num, <<>>, 0, get_col(m, col_num))

\* The caller has looked at what the call returned and goes on.
Return ==
    /\ ~Idle
    /\ last' = NoCall
    /\ UNCHANGED <<m, held>>

Next ==
    \/ \E s \in Shapes : CallNew(s[1], s[2])
    \/ \E rows \in Dims, cols \in Dims : CallIdentity(rows, cols)
    \/ \E row_num \in Indices, row \in RowVecs : CallReplaceRow(row_num, row)
    \/ \E row_num \in Indices, scalar \in Scalars : CallScalarRowMul(row_num, scalar)
    \/ \E scalar \in Scalars : CallScalarMatMul(scalar)
    \/ CallTranspose
    \/ \E m2 \in Operands : CallAdd(m2)
    \/ \E m2 \in Operands : CallSubtract(m2)
    \/ \E m2 \in Operands : CallMultiply(m2)
    \/ \E m1 \in Operands : CallMultiplyBy(m1)
    \/ \E row_num \in Indices : CallGetRow(row_num)
    \/ \E col_num \in Indices : CallGetCol(col_num)
    \/ Return

Spec == Init /\ [][Next]_vars

\* --------------------------------------------- the caller, any f64 entries
\* multiply with an identity as the left operand, on a matrix whose entries
\* are any values of f64.

\* Entries of the caller's matrix: the finite ones and the non-finite values.
FloatVals == Vals \cup NonFinite

\* Matrices a caller can build with new and replace_row from these entries.
FloatMatrices ==
    UNION {{Matrix(s[1], s[2], g) : g \in [1..s[1] -> [1..s[2] -> FloatVals]]} :
              s \in Shapes}

\* The caller has built its matrix and made no call yet.
InitFloat ==
    \E x \in FloatMatrices :
        /\ m = x
        /\ held = TRUE
        /\ last = NoCall

NextFloat ==
    \/ \E n \in Dims : CallMultiplyBy(identity(n, n).val)
    \/ Return

SpecFloat == InitFloat /\ [][NextFloat]_vars

\* ----------------------------------------------------------- combinatorics
\* src/src/combinatorics.rs: fact, permutation and combinations over usize.

\* Largest argument the caller passes to fact, permutation and combinations.
\* The factorial of an argument within the bound is far below usize::MAX, so
\* no multiplication of the model overflows.
MaxN == 7

Args == 0..MaxN

\* The recursion of fact is about 2^64 steps away from its base case: the
\* stack is exhausted first (or, compiled to a loop, the call does not return
\* in any feasible time).  The call returns nothing.
Diverges == [tag |-> "Diverges"]

\* a - b on usize.  When a < b the build decides: with overflow checks (the
\* debug and test profiles) the subtraction panics; without them (the release
\* profile) it wraps to a - b + 2^64, which the negative number a - b stands
\* for here.
usize_sub(a, b, overflow_checks) ==
    IF a >= b
    THEN Ok(a - b)
    ELSE IF overflow_checks THEN Panic ELSE Ok(a - b)

\* A negative n stands for the wrapped value 2^64 + n: the base case n = 1
\* is 2^64 + n - 1 frames away.
RECURSIVE fact(_, _)
fact(n, overflow_checks) ==
    IF n = 1
    THEN Ok(1)
    ELSE IF n < 0
         THEN Diverges
         ELSE LET d == usize_sub(n, 1, overflow_checks)
              IN  IF d.tag # "Ok"
                  THEN d
                  ELSE LET f == fact(d.val, overflow_checks)
                       IN  IF f.tag # "Ok" THEN f ELSE Ok(n * f.val)

permutation(n, r, overflow_checks) ==
    IF n > r
    THEN LET f1 == fact(n, overflow_checks)
             d  == usize_sub(n, r, overflow_checks)
         IN  IF f1.tag # "Ok"
             THEN f1
             ELSE IF d.tag # "Ok"
                  THEN d
                  ELSE LET f2 == fact(d.val, overflow_checks)
                       IN  IF f2.tag # "Ok" THEN f2 ELSE Ok(f1.val \div f2.val)
    ELSE Ok(1)

combinations(n, r, overflow_checks) ==
    IF n > r
    THEN LET pe == permutation(n, r, overflow_checks)
         IN  IF pe.tag # "Ok"
             THEN pe
             ELSE LET f == fact(r, overflow_checks)
                  IN  IF f.tag # "Ok" THEN f ELSE Ok(pe.val \div f.val)
    ELSE Ok(1)

\* A call of a function of combinatorics.rs in a build with or without
\* overflow checks, its arguments and what it returned.
CombCall(op, n, r, overflow_checks, out) ==
    [op |-> op, n |-> n, r |-> r, overflow_checks |-> overflow_checks,
     out |-> out]

\* The caller of combinatorics.rs owns no matrix; the build is fixed for the
\* whole run.
InitComb ==
    \E overflow_checks \in BOOLEAN :
        /\ m = NoMatrix
        /\ held = FALSE
        /\ last = CombCall("none", 0, 0, overflow_checks, None)

CallFact(n) ==
    /\ last' = CombCall("fact", n, 0, last.overflow_checks,
                        fact(n, last.overflow_checks))
    /\ UNCHANGED <<m, held>>

CallPermutation(n, r) ==
    /\ last' = CombCall("permutation", n, r, last.overflow_checks,
                        permutation(n, r, last.overflow_checks))
    /\ UNCHANGED <<m, held>>

CallCombinations(n, r) ==
    /\ last' = CombCall("combinations", n, r, last.overflow_checks,
                        combinations(n, r, last.overflow_checks))
    /\ UNCHANGED <<m, held>>

NextComb ==
    \/ \E n \in Args : CallFact(n)
    \/ \E n \in Args, r \in Args : CallPermutation(n, r)
    \/ \E n \in Args, r \in Args : CallCombinations(n, r)

SpecComb == InitComb /\ [][NextComb]_vars

\* ------------------------------------------------------------ properties

\* The grid of x has exactly x.rows rows, each of exactly x.cols entries.
WellShaped(x) ==
    /\ Len(x.mat) = x.rows
    /\ \A k \in 1..Len(x.mat) : Len(x.mat[k]) = x.cols

\* The calls that return a Matrix.
MatrixOps ==
    {"new", "identity", "replace_row", "scalar_row_mul", "scalar_mat_mul",
     "transpose", "add", "subtract", "multiply"}

Returned == last.out.tag \in {"Ok", "Some"}

\* Entry [i][j] of x, i and j counted from 0 as in the source.
At(x, i, j) == x.mat[i + 1][j + 1]

\* C1: starting from Matrix::new or Matrix::identity and applying any
\* sequence of replace_row, scalar_row_mul, scalar_mat_mul, transpose, add,
\* subtract and multiply, every Matrix that is returned, and so every matrix
\* the caller owns, has a grid of exactly rows rows of exactly cols entries.
C1_ShapeInvariant ==
    /\ held => WellShaped(m)
    /\ (last.op \in MatrixOps /\ Returned) => WellShaped(last.out.val)

\* A 4 x 1 matrix with a non-zero entry was returned by transpose: it came
\* from new by replace_row and then transpose.
C1_Witness ==
    /\ last.op = "transpose"
    /\ Returned
    /\ last.out.val.rows = 4
    /\ last.out.val.cols = 1
    /\ \E k \in 1..4 : last.out.val.mat[k][1] # 0
    /\ m = last.out.val

\* C2: scalar_row_mul(row_index, scalar) with a non-zero scalar returns an
\* index-out-of-bounds error value, without faulting, for every
\* row_index >= rows (row_index = rows included); for row_index < rows it
\* returns the matrix with every entry of that row multiplied by scalar.
C2_ScalarRowMulBounds ==
    (last.op = "scalar_row_mul" /\ last.scalar # 0) =>
        IF last.i >= last.self.rows
        THEN last.out = Err("NoSuchRow")
        ELSE /\ last.out.tag = "Ok"
             /\ last.out.val.rows = last.self.rows
             /\ last.out.val.cols = last.self.cols
             /\ Len(last.out.val.mat) = Len(last.self.mat)
             /\ \A k \in 1..Len(last.self.mat) :
                    /\ Len(last.out.val.mat[k]) = Len(last.self.mat[k])
                    /\ \A l \in 1..Len(last.self.mat[k]) :
                           last.out.val.mat[k][l] =
                               IF k = last.i + 1
                               THEN last.self.mat[k][l] * last.scalar
                               ELSE last.self.mat[k][l]

\* C3: scalar_mat_mul(scalar) returns an error when scalar = 0; for every
\* non-zero scalar and every matrix, grids with no rows or no columns
\* included, it returns Ok with a matrix of the same shape whose entry [i][j]
\* is scalar times the entry [i][j] of the input (no row step fails).
C3_ScalarMatMul ==
    last.op = "scalar_mat_mul" =>
        IF last.scalar = 0
        THEN last.out.tag = "Err"
        ELSE /\ last.out.tag = "Ok"
             /\ last.out.val.rows = last.self.rows
             /\ last.out.val.cols = last.self.cols
             /\ WellShaped(last.out.val)
             /\ \A i \in 0..(last.self.rows - 1) :
                    \A j \in 0..(last.self.cols - 1) :
                        At(last.out.val, i, j) = last.scalar * At(last.self, i, j)

\* scalar_mat_mul(2) returned a 2 x 2 matrix with an entry 2 in its last row.
C3_Witness ==
    /\ last.op = "scalar_mat_mul"
    /\ last.scalar = 2
    /\ last.self.rows = 2
    /\ last.self.cols = 2
    /\ last.out.tag = "Ok"
    /\ At(last.out.val, 1, 1) = 2

\* The sum over k in 1..n of a[k] * b[k].
RECURSIVE SumOfProducts(_, _, _)
SumOfProducts(a, b, n) ==
    IF n = 0 THEN 0 ELSE a[n] * b[n] + SumOfProducts(a, b, n - 1)

\* Column j of x (j counted from 0), top to bottom.
Column(x, j) == [k \in 1..x.rows |-> x.mat[k][j + 1]]

\* C4: multiply(m1, m2) returns an error exactly when m1.cols # m2.rows;
\* otherwise it returns an m1.rows x m2.cols matrix whose entry [i][j] is the
\* sum over k of m1[i][k] * m2[k][j], and dot_product is never handed two
\* vectors of different lengths.
C4_Multiply ==
    last.op = "multiply" =>
        /\ (last.out.tag = "Err") <=> (last.self.cols # last.other.rows)
        /\ (last.self.cols = last.other.rows) =>
               /\ last.out.tag = "Ok"
               /\ last.out.val.rows = last.self.rows
               /\ last.out.val.cols = last.other.cols
               /\ WellShaped(last.out.val)
               /\ \A i \in 0..(last.self.rows - 1) :
                      \A j \in 0..(last.other.cols - 1) :
                          At(last.out.val, i, j) =
                              SumOfProducts(last.self.mat[i + 1],
                                            Column(last.other, j),
                                            last.self.cols)
               /\ Cardinality(multiply_dot_args(last.self, last.other)) > 0
                      <=> (last.self.rows > 0 /\ last.other.cols > 0)
               /\ \A p \in multiply_dot_args(last.self, last.other) :
                      Len(p[1]) = Len(p[2])

\* A 2 x 2 by 2 x 2 product with an entry that sums two non-zero products.
C4_Witness ==
    /\ last.op = "multiply"
    /\ last.self.rows = 2
    /\ last.self.cols = 2
    /\ last.other.cols = 2
    /\ last.out.tag = "Ok"
    /\ At(last.out.val, 1, 0) = 2

\* Every entry of x is a finite value of f64.
AllFinite(x) ==
    \A k \in 1..Len(x.mat) : \A l \in 1..Len(x.mat[k]) : is_finite(x.mat[k][l])

\* C5, as stated: for every n and every matrix m2 with m2.rows = n,
\* multiply(identity(n, n), m2) succeeds and returns a matrix with the shape
\* and the entries of m2.  It fails under SpecFloat: an entry 0 of the
\* identity times an infinite entry of m2 is NaN, and the sum it enters is NaN.
C5_IdentityLaw ==
    \A n \in Dims :
        (/\ last.op = "multiply"
         /\ last.other.rows = n
         /\ last.self = identity(n, n).val)
            => last.out = Ok(last.other)

\* C5, amended: for every n and every matrix m2 with m2.rows = n whose
\* entries are all finite, multiply(identity(n, n), m2) succeeds and returns
\* a matrix with the shape and the entries of m2.
C5_IdentityLawFinite ==
    \A n \in Dims :
        (/\ last.op = "multiply"
         /\ last.other.rows = n
         /\ last.self = identity(n, n).val
         /\ AllFinite(last.other))
            => last.out = Ok(last.other)

\* The 2 x 2 identity was multiplied by a 2 x 2 matrix of finite entries,
\* some of them off the diagonal.
C5_Witness ==
    /\ last.op = "multiply"
    /\ last.self = identity(2, 2).val
    /\ last.other.rows = 2
    /\ last.other.cols = 2
    /\ AllFinite(last.other)
    /\ At(last.other, 0, 1) = 1
    /\ At(last.other, 1, 0) = 0
    /\ last.out.tag = "Ok"

\* The 2 x 2 identity was multiplied by the column (inf, 1) and returned the
\* column (inf, NaN).
C5_WitnessNaN ==
    /\ last.op = "multiply"
    /\ last.self = identity(2, 2).val
    /\ last.other = Matrix(2, 1, <<<<PosInf>>, <<1>>>>)
    /\ last.out = Ok(Matrix(2, 1, <<<<PosInf>>, <<NaN>>>>))

\* The 0 x 0 identity was multiplied by a grid with no rows and 3 columns.
C5_WitnessNoRows ==
    /\ last.op = "multiply"
    /\ last.self = identity(0, 0).val
    /\ last.other.rows = 0
    /\ last.other.cols = 3
    /\ last.out.tag = "Ok"

\* C6: for every matrix, grids with no rows or no columns included,
\* transpose(transpose(m)) has the rows, the cols and the grid of m.
C6_TransposeRoundTrip ==
    last.op = "transpose" =>
        /\ last.out.tag = "Ok"
        /\ transpose(last.out.val) = Ok(last.self)

\* transpose returned the 4 x 1 transpose of a 1 x 4 matrix whose entries
\* are not all equal.
C6_Witness ==
    /\ last.op = "transpose"
    /\ last.self.rows = 1
    /\ last.self.cols = 4
    /\ At(last.self, 0, 0) # At(last.self, 0, 3)
    /\ last.out.tag = "Ok"
    /\ transpose(last.out.val).tag = "Ok"

\* transpose was called on a grid with rows and no columns.
C6_WitnessNoCols ==
    /\ last.op = "transpose"
    /\ last.self.rows = 3
    /\ last.self.cols = 0
    /\ last.out.tag = "Ok"

\* C7: transpose(m) always succeeds (replace_row inside it neither returns an
\* error nor indexes out of range) and returns a matrix with rows = m.cols
\* and cols = m.rows whose entry [j][i] is the entry [i][j] of m.
C7_Transpose ==
    last.op = "transpose" =>
        /\ last.out.tag = "Ok"
        /\ last.out.val.rows = last.self.cols
        /\ last.out.val.cols = last.self.rows
        /\ WellShaped(last.out.val)
        /\ \A i \in 0..(last.self.rows - 1) :
               \A j \in 0..(last.self.cols - 1) :
                   At(last.out.val, j, i) = At(last.self, i, j)

\* transpose returned the transpose of a 2 x 2 matrix that is not symmetric.
C7_Witness ==
    /\ last.op = "transpose"
    /\ last.self.rows = 2
    /\ last.self.cols = 2
    /\ At(last.self, 0, 1) # At(last.self, 1, 0)
    /\ last.out.tag = "Ok"

\* C8: for matrices m1, m2 of the same shape, add(m1, m2) succeeds with a
\* result s, and subtract(s, m2) succeeds and equals m1 in shape and in
\* every entry.
C8_AddSubtractInverse ==
    (/\ last.op = "add"
     /\ last.self.rows = last.other.rows
     /\ last.self.cols = last.other.cols)
        => /\ last.out.tag = "Ok"
           /\ subtract(last.out.val, last.other) = Ok(last.self)

\* add returned the sum of two different non-zero 2 x 2 matrices.
C8_Witness ==
    /\ last.op = "add"
    /\ last.self.rows = 2
    /\ last.self.cols = 2
    /\ last.other.rows = 2
    /\ last.other.cols = 2
    /\ At(last.self, 0, 1) = 1
    /\ At(last.other, 0, 1) = 1
    /\ At(last.other, 1, 0) # At(last.self, 1, 0)
    /\ last.out.tag = "Ok"
    /\ At(last.out.val, 0, 1) = 2

\* C9: add(m1, m2) and subtract(m1, m2) return a dimension-mismatch error
\* exactly when m1.rows # m2.rows or m1.cols # m2.cols; otherwise they return
\* a matrix of that shape whose entry [i][j] is m1[i][j] + m2[i][j]
\* (m1[i][j] - m2[i][j] for subtract).
C9_AddSubtract ==
    last.op \in {"add", "subtract"} =>
        LET differ == \/ last.self.rows # last.other.rows
                      \/ last.self.cols # last.other.cols
        IN  /\ (last.out = Err("DimensionsDiffer")) <=> differ
            /\ ~differ =>
                   /\ last.out.tag = "Ok"
                   /\ last.out.val.rows = last.self.rows
                   /\ last.out.val.cols = last.self.cols
                   /\ WellShaped(last.out.val)
                   /\ \A i \in 0..(last.self.rows - 1) :
                          \A j \in 0..(last.self.cols - 1) :
                              At(last.out.val, i, j) =
                                  IF last.op = "add"
                                  THEN At(last.self, i, j) + At(last.other, i, j)
                                  ELSE At(last.self, i, j) - At(last.other, i, j)

\* subtract returned a 1 x 4 difference with a negative entry.
C9_Witness ==
    /\ last.op = "subtract"
    /\ last.self.rows = 1
    /\ last.self.cols = 4
    /\ last.out.tag = "Ok"
    /\ At(last.out.val, 0, 3) = -1
    /\ At(last.out.val, 0, 0) = 1

\* add was refused for operands with the same rows and different cols.
C9_WitnessMismatch ==
    /\ last.op = "add"
    /\ last.self.rows = last.other.rows
    /\ last.self.cols # last.other.cols
    /\ last.out.tag = "Err"

\* C10: replace_row(row_index, new_row) returns an error whenever the length
\* of new_row differs from cols; when the length equals cols and
\* row_index < rows it returns a matrix with the same rows and cols in which
\* row row_index is new_row and every other row is unchanged.
C10_ReplaceRow ==
    last.op = "replace_row" =>
        /\ Len(last.row) # last.self.cols => last.out.tag = "Err"
        /\ (Len(last.row) = last.self.cols /\ last.i < last.self.rows) =>
               /\ last.out.tag = "Ok"
               /\ last.out.val.rows = last.self.rows
               /\ last.out.val.cols = last.self.cols
               /\ Len(last.out.val.mat) = Len(last.self.mat)
               /\ \A k \in 1..Len(last.self.mat) :
                      last.out.val.mat[k] =
                          IF k = last.i + 1 THEN last.row ELSE last.self.mat[k]

\* replace_row replaced the last row of a 2 x 2 matrix whose first row is not
\* zero by a different row.
C10_Witness ==
    /\ last.op = "replace_row"
    /\ last.self.rows = 2
    /\ last.self.cols = 2
    /\ last.i = 1
    /\ last.self.mat[1] = <<0, 1>>
    /\ last.row = <<1, 1>>
    /\ last.self.mat[2] # last.row
    /\ last.out.tag = "Ok"

\* replace_row refused a row that is too long, for a row index out of range.
C10_WitnessMismatch ==
    /\ last.op = "replace_row"
    /\ Len(last.row) > last.self.cols
    /\ last.i >= last.self.rows
    /\ last.out.tag = "Err"

\* C11: identity(rows, cols) returns None exactly when rows # cols; when
\* rows = cols = n it returns an n x n matrix whose entry [i][j] is 1 if
\* i = j and 0 otherwise.
C11_Identity ==
    last.op = "identity" =>
        /\ (last.out = None) <=> (last.i # last.j)
        /\ (last.i = last.j) =>
               /\ last.out.tag = "Some"
               /\ last.out.val.rows = last.i
               /\ last.out.val.cols = last.i
               /\ WellShaped(last.out.val)
               /\ \A i \in 0..(last.i - 1) :
                      \A j \in 0..(last.i - 1) :
                          At(last.out.val, i, j) = IF i = j THEN 1 ELSE 0

\* identity(3, 3) returned a matrix.
C11_Witness ==
    /\ last.op = "identity"
    /\ last.i = 3
    /\ last.j = 3
    /\ last.out.tag = "Some"
    /\ At(last.out.val, 2, 2) = 1
    /\ At(last.out.val, 2, 0) = 0

\* identity(2, 3) returned None.
C11_WitnessNone ==
    /\ last.op = "identity"
    /\ last.i = 2
    /\ last.j = 3
    /\ last.out = None

\* C12: for all rows >= 0 and cols >= 0, 0 included, Matrix::new(rows, cols)
\* returns a matrix whose rows field is rows, whose cols field is cols and
\* whose every entry is 0.
C12_New ==
    last.op = "new" =>
        /\ last.out.tag = "Ok"
        /\ last.out.val.rows = last.i
        /\ last.out.val.cols = last.j
        /\ Len(last.out.val.mat) = last.i
        /\ \A k \in 1..last.i :
               /\ Len(last.out.val.mat[k]) = last.j
               /\ \A l \in 1..last.j : last.out.val.mat[k][l] = 0

\* new(2, 2) returned a matrix and the caller owns it.
C12_Witness ==
    /\ last.op = "new"
    /\ last.i = 2
    /\ last.j = 2
    /\ last.out.tag = "Ok"
    /\ m = last.out.val

\* new(0, 3) returned: a grid with no rows.
C12_WitnessNoRows ==
    /\ last.op = "new"
    /\ last.i = 0
    /\ last.j = 3
    /\ last.out.tag = "Ok"

\* C13: get_row(i) returns an error for every i >= rows and, for every
\* i < rows, returns a sequence of length cols equal to row i of the matrix;
\* the matrix is left unchanged.
C13_GetRow ==
    last.op = "get_row" =>
        /\ IF last.i >= last.self.rows
           THEN last.out = Err("NoSuchRow")
           ELSE /\ last.out.tag = "Ok"
                /\ Len(last.out.val) = last.self.cols
                /\ \A l \in 1..last.self.cols :
                       last.out.val[l] = At(last.self, last.i, l - 1)
        /\ held
        /\ m = last.self

\* get_row(1) returned the last row of a 2 x 2 matrix whose rows differ.
C13_Witness ==
    /\ last.op = "get_row"
    /\ last.self.rows = 2
    /\ last.self.cols = 2
    /\ last.i = 1
    /\ last.self.mat[1] # last.self.mat[2]
    /\ last.out.tag = "Ok"
    /\ last.out.val = <<1, 0>>

\* get_row(rows) was refused: the boundary index.
C13_WitnessBoundary ==
    /\ last.op = "get_row"
    /\ last.self.rows = 3
    /\ last.i = 3
    /\ last.out.tag = "Err"

\* C14: get_col(j) never fails: for j < cols it returns the sequence of
\* length rows whose i-th element is the entry [i][j]; for j >= cols it
\* returns a sequence of exactly cols zeros (not rows zeros).
C14_GetCol ==
    last.op = "get_col" =>
        /\ last.out.tag = "Ok"
        /\ IF last.j < last.self.cols
           THEN /\ Len(last.out.val) = last.self.rows
                /\ \A k \in 1..last.self.rows :
                       last.out.val[k] = At(last.self, k - 1, last.j)
           ELSE /\ Len(last.out.val) = last.self.cols
                /\ \A l \in 1..last.self.cols : last.out.val[l] = 0

\* get_col(1) was answered with 1 zero for a 3 x 1 matrix: cols zeros where
\* the matrix has 3 rows.
C14_Witness ==
    /\ last.op = "get_col"
    /\ last.self.rows = 3
    /\ last.self.cols = 1
    /\ last.j = 1
    /\ last.out = Ok(<<0>>)

\* get_col(1) returned the last column of a 2 x 2 matrix whose columns differ.
C14_WitnessColumn ==
    /\ last.op = "get_col"
    /\ last.self.rows = 2
    /\ last.self.cols = 2
    /\ last.j = 1
    /\ last.out = Ok(<<0, 1>>)
    /\ At(last.self, 0, 0) = 1

\* n!, with 0! = 1.
RECURSIVE Factorial(_)
Factorial(n) == IF n = 0 THEN 1 ELSE n * Factorial(n - 1)

\* C15: fact(n) terminates and returns the factorial n! for every
\* non-negative n whose factorial is within the machine-integer range;
\* fact(0) returns 1 and fact(1) returns 1.
C15_Fact ==
    last.op = "fact" => last.out = Ok(Factorial(last.n))

\* C16: for all non-negative n and r, r = 0 included, combinations(n, r)
\* returns permutation(n, r) / r! when n > r and 1 when n <= r, where
\* permutation(n, r) is n! / (n - r)! when n > r and 1 when n <= r; the call
\* returns a value in every case.
C16_Combinations ==
    last.op = "combinations" =>
        last.out =
            Ok(IF last.n > last.r
               THEN (Factorial(last.n) \div Factorial(last.n - last.r))
                        \div Factorial(last.r)
               ELSE 1)

==========================================================================
